---- MODULE Spec2Model ----
(***************************************************************************)
(* A model of micromap's fixed-capacity Map<K, V, N> (src/src/map.rs).     *)
(*                                                                         *)
(* The map is an array `pairs` of N slots, each an Option<(K, V)>, and a   *)
(* cursor `next`; every method scans the slots 0 .. next-1 in order.       *)
(* The model is of a build with debug assertions on: a failing             *)
(* debug_assert! in insert panics, and a panicked program takes no more    *)
(* steps.  Beside the two fields the model keeps what a test harness       *)
(* around the map would keep: the last call and its arguments, the fields  *)
(* as they were before that call, and a plain finite map that is updated   *)
(* side by side.                                                           *)
(***************************************************************************)
EXTENDS Integers, FiniteSets, Sequences, TLC

\* ---- bounds of the model ----
MaxKey == 2     \* keys are 1 .. MaxKey
MaxVal == 2     \* values are 1 .. MaxVal
MaxN == 3       \* the capacity N is any of 0 .. MaxN
MaxLen == 3     \* from_iter is given at most MaxLen pairs

Keys == 1 .. MaxKey
Vals == 1 .. MaxVal

\* Option<T>: None is the empty tuple, Some(x) the one-element tuple.
None == <<>>
Some(x) == <<x>>
Unwrap(o) == o[1]

\* the predicates handed to retain: f(k, v) is true iff <<k, v>> \in f
Preds == SUBSET (Keys \X Vals)

\* the finite sequences of pairs handed to from_iter
PairSeqs == UNION {[1 .. n -> Keys \X Vals] : n \in 0 .. MaxLen}

VARIABLES
    N,          \* the const generic N of Map<K, V, N>, fixed at construction
    pairs,      \* the slot array: pairs[i] is None or Some(<<k, v>>)
    next,       \* the cursor: slots 0 .. next-1 are the ones scanned
    panicked,   \* TRUE once debug_assert! in insert has failed
    op,         \* the last call: its name and arguments
    before,     \* pairs and next as they were when the last call started
    abs,        \* the finite map kept side by side: abs[k] is None or Some(v)
    cleared,    \* TRUE once clear() has been called
    written     \* the slots written (pairs[i].write) since construction
                \* or the last clear()

vars == <<N, pairs, next, panicked, op, before, abs, cleared, written>>

Slots == 0 .. N - 1

\* ---- the read-only methods, as functions of the two fields ----

capacity == N

RECURSIVE lenFrom(_, _, _, _)
lenFrom(p, nx, i, busy) ==
    IF i >= nx THEN busy
    ELSE lenFrom(p, nx, i + 1, IF p[i] # None THEN busy + 1 ELSE busy)

len(p, nx) == lenFrom(p, nx, 0, 0)

is_empty(p, nx) == len(p, nx) = 0

RECURSIVE containsFrom(_, _, _, _)
containsFrom(p, nx, k, i) ==
    IF i >= nx THEN FALSE
    ELSE IF p[i] # None /\ Unwrap(p[i])[1] = k THEN TRUE
    ELSE containsFrom(p, nx, k, i + 1)

contains_key(p, nx, k) == containsFrom(p, nx, k, 0)

RECURSIVE getFrom(_, _, _, _)
getFrom(p, nx, k, i) ==
    IF i >= nx THEN None
    ELSE IF p[i] # None /\ Unwrap(p[i])[1] = k THEN Some(Unwrap(p[i])[2])
    ELSE getFrom(p, nx, k, i + 1)

get(p, nx, k) == getFrom(p, nx, k, 0)

\* ---- remove: tombstone the first occupied slot whose key is k ----

\* the scan running over the whole array instead of the slots below next
RECURSIVE removeFromWholeArray(_, _, _, _)
removeFromWholeArray(p, nx, k, i) ==
    IF i >= N THEN p
    ELSE IF p[i] # None /\ Unwrap(p[i])[1] = k THEN [p EXCEPT ![i] = None]
    ELSE removeFromWholeArray(p, nx, k, i + 1)

RECURSIVE removeFrom(_, _, _, _)
removeFrom(p, nx, k, i) ==
    IF i >= nx THEN p
    ELSE IF p[i] # None /\ Unwrap(p[i])[1] = k THEN [p EXCEPT ![i] = None]
    ELSE removeFrom(p, nx, k, i + 1)

\* ---- insert: the scan loop, then the write ----

\* the assertion off by one
insertAssertLoose(i) == i <= N

\* debug_assert!(i < N, ...)
insertAssert(i) == i < N

\* the loop leaving at the first empty slot, before it has looked for the key
\* in the slots after it
RECURSIVE insertScanFirstEmpty(_, _, _, _, _)
insertScanFirstEmpty(p, nx, k, i, target) ==
    IF i = nx
    THEN [target |-> target, atEnd |-> TRUE, ok |-> insertAssert(i)]
    ELSE IF p[i] # None /\ Unwrap(p[i])[1] = k
    THEN [target |-> i, atEnd |-> FALSE, ok |-> TRUE]
    ELSE IF p[i] = None
    THEN [target |-> i, atEnd |-> FALSE, ok |-> TRUE]
    ELSE insertScanFirstEmpty(p, nx, k, i + 1, target)

\* the loop never taking a slot's key for the key looked for
RECURSIVE insertScanNoMatch(_, _, _, _, _)
insertScanNoMatch(p, nx, k, i, target) ==
    IF i = nx
    THEN [target |-> target, atEnd |-> TRUE, ok |-> insertAssert(i)]
    ELSE insertScanNoMatch(p, nx, k, i + 1, IF p[i] = None THEN i ELSE target)

\* The loop of insert: the result is the target slot, whether the loop left
\* through the `i == self.next` branch (which adds one to next), and whether
\* the assertion of that branch held.
RECURSIVE insertScan(_, _, _, _, _)
insertScan(p, nx, k, i, target) ==
    IF i = nx
    THEN [target |-> target, atEnd |-> TRUE, ok |-> insertAssert(i)]
    ELSE IF p[i] # None /\ Unwrap(p[i])[1] = k
    THEN [target |-> i, atEnd |-> FALSE, ok |-> TRUE]
    ELSE insertScan(p, nx, k, i + 1, IF p[i] = None THEN i ELSE target)

\* insert as a function of the map m = [pairs, next, ok, written]: ok is
\* FALSE once the assertion has failed, and nothing is done after that.
insertInto(m, k, v) ==
    LET r == insertScan(m.pairs, m.next, k, 0, m.next) IN
    IF ~m.ok \/ ~r.ok
    THEN [m EXCEPT !.ok = FALSE]
    ELSE [pairs |-> [m.pairs EXCEPT ![r.target] = Some(<<k, v>>)],
          next |-> IF r.atEnd THEN m.next + 1 ELSE m.next,
          ok |-> TRUE,
          written |-> m.written \cup {r.target}]

\* ---- from_iter: insert the pairs of a sequence, in order, into a new map ----

RECURSIVE fromIterFrom(_, _, _)
fromIterFrom(m, s, i) ==
    IF i > Len(s) THEN m
    ELSE fromIterFrom(insertInto(m, s[i][1], s[i][2]), s, i + 1)

\* the keys of a sequence of pairs, and the last value it gives for a key
keysOf(s) == {s[i][1] : i \in 1 .. Len(s)}
lastValue(s, k) ==
    LET idx == {i \in 1 .. Len(s) : s[i][1] = k} IN
    IF idx = {} THEN None
    ELSE Some(s[CHOOSE i \in idx : \A j \in idx : j <= i][2])

\* ---- retain: tombstone every occupied slot whose pair fails f ----

RECURSIVE retainFrom(_, _, _, _)
retainFrom(p, nx, f, i) ==
    IF i >= nx THEN p
    ELSE retainFrom(IF p[i] # None /\ Unwrap(p[i]) \notin f
                    THEN [p EXCEPT ![i] = None] ELSE p,
                    nx, f, i + 1)

\* ---- the state machine ----

Call(name, k, v, f) == [name |-> name, k |-> k, v |-> v, f |-> f, s |-> <<>>]

Snapshot == [N |-> N, pairs |-> pairs, next |-> next, abs |-> abs]

\* the slots whose content differs between two slot arrays
changed(p, q) == {i \in DOMAIN p : p[i] # q[i]}

\* Map::new() is not part of map.rs.  A new map has next = 0 and, as its
\* documentation has it, every slot empty.  The methods read the slots with
\* assume_init_ref, so what a slot at or above next holds matters as soon as
\* next moves over it; after a clear such slots hold the pairs left there.
Init ==
    /\ N \in 0 .. MaxN
    /\ pairs = [i \in Slots |-> None]
    /\ next = 0
    /\ panicked = FALSE
    /\ op = Call("new", 0, 0, {})
    /\ before = [N |-> N, pairs |-> [i \in Slots |-> None], next |-> 0,
                 abs |-> [k \in Keys |-> None]]
    /\ abs = [k \in Keys |-> None]
    /\ cleared = FALSE
    /\ written = {}

insert(k, v) ==
    /\ ~panicked
    /\ op' = Call("insert", k, v, {})
    /\ before' = Snapshot
    /\ LET m == insertInto([pairs |-> pairs, next |-> next, ok |-> TRUE,
                            written |-> written], k, v) IN
        /\ panicked' = ~m.ok
        /\ pairs' = m.pairs
        /\ next' = m.next
        /\ written' = m.written
        /\ abs' = IF m.ok THEN [abs EXCEPT ![k] = Some(v)] ELSE abs
    /\ UNCHANGED <<N, cleared>>

\* Map::from_iter(s), the other way to construct a map: it is not part of
\* map.rs; it is Map::new() followed by insert(k, v) for each pair of s.
from_iter(s) ==
    /\ op.name = "new"
    /\ ~panicked
    /\ op' = [Call("from_iter", 0, 0, {}) EXCEPT !.s = s]
    /\ before' = Snapshot
    /\ LET m == fromIterFrom([pairs |-> pairs, next |-> next, ok |-> TRUE,
                              written |-> written], s, 1) IN
        /\ panicked' = ~m.ok
        /\ pairs' = m.pairs
        /\ next' = m.next
        /\ written' = m.written
        /\ abs' = IF m.ok THEN [k \in Keys |-> lastValue(s, k)] ELSE abs
    /\ UNCHANGED <<N, cleared>>

remove(k) ==
    /\ ~panicked
    /\ op' = Call("remove", k, 0, {})
    /\ before' = Snapshot
    /\ pairs' = removeFrom(pairs, next, k, 0)
    /\ written' = written \cup changed(pairs, pairs')
    /\ abs' = [abs EXCEPT ![k] = None]
    /\ UNCHANGED <<N, next, panicked, cleared>>

\* clear giving up the last slot only
clearDropLast ==
    /\ ~panicked
    /\ op' = Call("clear", 0, 0, {})
    /\ before' = Snapshot
    /\ next' = IF next > 0 THEN next - 1 ELSE 0
    /\ abs' = [k \in Keys |-> None]
    /\ cleared' = TRUE
    /\ written' = {}
    /\ UNCHANGED <<N, pairs, panicked>>

clear ==
    /\ ~panicked
    /\ op' = Call("clear", 0, 0, {})
    /\ before' = Snapshot
    /\ next' = 0
    /\ abs' = [k \in Keys |-> None]
    /\ cleared' = TRUE
    /\ written' = {}
    /\ UNCHANGED <<N, pairs, panicked>>

retain(f) ==
    /\ ~panicked
    /\ op' = Call("retain", 0, 0, f)
    /\ before' = Snapshot
    /\ pairs' = retainFrom(pairs, next, f, 0)
    /\ written' = written \cup changed(pairs, pairs')
    /\ abs' = [k \in Keys |->
                IF abs[k] # None /\ <<k, Unwrap(abs[k])>> \in f
                THEN abs[k] ELSE None]
    /\ UNCHANGED <<N, next, panicked, cleared>>

Next ==
    \/ \E k \in Keys, v \in Vals : insert(k, v)
    \/ \E k \in Keys : remove(k)
    \/ clear
    \/ \E f \in Preds : retain(f)

\* a map made by Map::new() and the calls made on it
Spec == Init /\ [][Next]_vars

\* a map made by Map::new() or by Map::from_iter, and the calls made on it
NextFromIter ==
    \/ \E k \in Keys, v \in Vals : insert(k, v)
    \/ \E k \in Keys : remove(k)
    \/ clear
    \/ \E f \in Preds : retain(f)
    \/ \E s \in PairSeqs : from_iter(s)

SpecFromIter == Init /\ [][NextFromIter]_vars

\* ---- shorthands for the claims ----

lenBefore == len(before.pairs, before.next)
lenNow == len(pairs, next)
hadKey(k) == contains_key(before.pairs, before.next, k)
hasKey(k) == contains_key(pairs, next, k)
\* the slots of [0, cursor) that were empty when the last call started
emptyBefore == {i \in 0 .. before.next - 1 : before.pairs[i] = None}
\* the last call is a call of `name` that returned (did not panic)
returned(name) == op.name = name /\ ~panicked

\* C1: in a build with the assertion on, after any sequence of insert,
\* remove, retain and clear calls, len() <= capacity(): the scan of len()
\* stays inside the N slots of the array, and it counts at most capacity()
\* occupied slots.
C1_LenWithinCapacity == next <= N /\ lenNow <= capacity

\* a map filled to its capacity by an insert, after a clear and with a
\* capacity of at least two
C1_Witness ==
    /\ returned("insert") /\ cleared /\ N >= 2
    /\ lenNow = capacity /\ lenBefore = capacity - 1

\* C2: insert(k, v) of a key that is present leaves len() unchanged, and
\* get(k) returns v right after it.
C2_InsertPresent ==
    (op.name = "insert" /\ hadKey(op.k)) =>
        /\ ~panicked
        /\ lenNow = lenBefore
        /\ get(pairs, next, op.k) = Some(op.v)

\* an insert that replaced the value of a present key, with an empty slot
\* before the slot of the key
C2_Witness ==
    /\ returned("insert") /\ hadKey(op.k)
    /\ get(before.pairs, before.next, op.k) # Some(op.v)
    /\ \E i \in emptyBefore, j \in 0 .. before.next - 1 :
          i < j /\ before.pairs[j] # None /\ Unwrap(before.pairs[j])[1] = op.k

\* C3: insert(k, v) of a key that is not present, when it does not hit the
\* capacity failure, adds exactly one to len(), and get(k) returns v right
\* after it.
C3_InsertAbsent ==
    (returned("insert") /\ ~hadKey(op.k)) =>
        /\ lenNow = lenBefore + 1
        /\ get(pairs, next, op.k) = Some(op.v)

\* C4: right after remove(k), contains_key(k) is false and get(k) is empty.
C4_RemovedIsGone ==
    op.name = "remove" =>
        /\ ~hasKey(op.k)
        /\ get(pairs, next, op.k) = None

\* C5: after clear(), a key is observable (contains_key, get) only if it has
\* been inserted since that clear and not removed since.
C5_ClearedStaysGone ==
    cleared =>
        \A k \in Keys :
            abs[k] = None => ~hasKey(k) /\ get(pairs, next, k) = None

\* C6: insert fails only when the key is new, no slot of [0, cursor) is empty
\* and the map holds N pairs; in every other state it succeeds.
C6_OnlyFailure ==
    (op.name = "insert" /\ panicked) =>
        /\ ~hadKey(op.k)
        /\ emptyBefore = {}
        /\ lenBefore = before.N

\* C7: in a build with the assertion on, insert(k, v) of a new key with no
\* empty slot in [0, cursor) and cursor = N panics, and neither a slot nor
\* the cursor has changed; a map of capacity 0 is such a map for every key.
C7_FailsFast ==
    (/\ op.name = "insert"
     /\ ~hadKey(op.k)
     /\ emptyBefore = {}
     /\ before.next = before.N) =>
        /\ panicked
        /\ pairs = before.pairs
        /\ next = before.next

\* a failed insert into a full map of capacity one or more, after a clear
C7_Witness ==
    /\ op.name = "insert" /\ panicked /\ cleared
    /\ N >= 1 /\ lenBefore = N
    /\ ~hadKey(op.k) /\ emptyBefore = {}

\* C8: clear() results in len() = 0 and is_empty(), and capacity() is the
\* same N as before.
C8_Clear ==
    op.name = "clear" =>
        /\ lenNow = 0
        /\ is_empty(pairs, next)
        /\ capacity = before.N

\* a clear of a map that held two or more pairs and an empty slot
C8_Witness ==
    /\ op.name = "clear"
    /\ lenBefore >= 2
    /\ emptyBefore # {}

\* the pairs in the slots of [0, cursor) when the last call started
entriesBefore ==
    {i \in 0 .. before.next - 1 : before.pairs[i] # None}

C10_RemoveAbsent ==
    (op.name = "remove" /\ ~hadKey(op.k)) =>
        /\ next = before.next
        /\ pairs = before.pairs
        /\ lenNow = lenBefore
        /\ \A k \in Keys :
              get(pairs, next, k) = get(before.pairs, before.next, k)

\* a remove of an absent key from a map that holds a pair, while a slot
\* at or above the cursor still holds a pair of that key
C10_Witness ==
    /\ op.name = "remove" /\ ~hadKey(op.k)
    /\ lenBefore >= 1
    /\ \E i \in Slots :
          i >= next /\ pairs[i] # None /\ Unwrap(pairs[i])[1] = op.k

\* the slots of [0, cursor) that hold a pair of key k
slotsOf(k) ==
    {i \in 0 .. next - 1 : pairs[i] # None /\ Unwrap(pairs[i])[1] = k}

\* C11: a map built by from_iter from a sequence of pairs with at most N
\* distinct keys holds exactly the pairs (key, last value given for the
\* key), one entry for each distinct key, however often a key is repeated.
C11_FromIter ==
    (op.name = "from_iter" /\ Cardinality(keysOf(op.s)) <= N) =>
        /\ ~panicked
        /\ \A k \in Keys :
              /\ get(pairs, next, k) = lastValue(op.s, k)
              /\ hasKey(k) <=> k \in keysOf(op.s)
              /\ Cardinality(slotsOf(k)) = IF k \in keysOf(op.s) THEN 1 ELSE 0
        /\ lenNow = Cardinality(keysOf(op.s))

\* a map built from three pairs or more of two keys, the key that comes
\* twice with two values
C11_Witness ==
    /\ returned("from_iter")
    /\ Len(op.s) >= 3
    /\ lenNow = 2
    /\ \E i, j \in 1 .. Len(op.s) :
          i < j /\ op.s[i][1] = op.s[j][1] /\ op.s[i][2] # op.s[j][2]

\* C12: in every state reached by insert, remove, retain and clear calls, no
\* two occupied slots of [0, cursor) hold equal keys.
C12_UniqueKeys ==
    \A i, j \in 0 .. next - 1 :
        (i # j /\ pairs[i] # None /\ pairs[j] # None) =>
            Unwrap(pairs[i])[1] # Unwrap(pairs[j])[1]

\* the slot the last insert wrote, from the fields as they were before it
targetOfInsert ==
    insertScan(before.pairs, before.next, op.k, 0, before.next).target

\* C13: insert adds one to the cursor exactly when it writes the pair into
\* slot `cursor`; when it writes a slot of [0, cursor), the slot of the key
\* or an empty one, the cursor is unchanged.
C13_CursorAdvance ==
    returned("insert") =>
        /\ next = before.next + 1 <=> targetOfInsert = before.next
        /\ targetOfInsert < before.next => next = before.next

\* C14: in a build with the assertion on, 0 <= cursor <= N in every state
\* reached by insert, remove, retain and clear calls.
C14_CursorInRange == 0 <= next /\ next <= N

\* the cursor at N, on a map of capacity two or more that holds fewer than
\* N pairs, after a retain
C14_Witness ==
    /\ op.name = "retain" /\ N >= 2
    /\ next = N /\ lenNow < N

\* the slots of [0, cursor) that held a pair of key k before the last call
slotsOfBefore(k) ==
    {i \in 0 .. before.next - 1 :
        before.pairs[i] # None /\ Unwrap(before.pairs[i])[1] = k}

\* C15: insert(k, v) of a key that is present writes (k, v) into the slot
\* that held k, also when empty slots come before it; every other slot and
\* the cursor are unchanged.
C15_InPlace ==
    (op.name = "insert" /\ hadKey(op.k)) =>
        /\ ~panicked
        /\ next = before.next
        /\ \E i \in slotsOfBefore(op.k) :
              pairs = [before.pairs EXCEPT ![i] = Some(<<op.k, op.v>>)]

\* an insert of a present key with a new value, with an empty slot before
\* the slot of the key and a pair of another key after it
C15_Witness ==
    /\ returned("insert") /\ hadKey(op.k)
    /\ changed(before.pairs, pairs) # {}
    /\ \E i \in emptyBefore, j \in slotsOfBefore(op.k), h \in 0 .. before.next - 1 :
          /\ i < j /\ j < h
          /\ before.pairs[h] # None /\ Unwrap(before.pairs[h])[1] # op.k

\* C16: insert(k, v) of a key that is not present writes the pair into the
\* highest empty slot of [0, cursor) if there is one, and into slot `cursor`
\* only when there is none (and cursor < N); no other slot is written.
C16_NewKeyTarget ==
    (op.name = "insert" /\ ~hadKey(op.k)) =>
        IF emptyBefore # {}
        THEN LET t == CHOOSE i \in emptyBefore : \A j \in emptyBefore : j <= i
             IN pairs = [before.pairs EXCEPT ![t] = Some(<<op.k, op.v>>)]
        ELSE before.next < before.N =>
             pairs = [before.pairs EXCEPT ![before.next] = Some(<<op.k, op.v>>)]

\* C17: remove and retain leave the cursor alone and write no pair: they
\* only make occupied slots of [0, cursor) empty, remove at most one, and
\* every other slot is unchanged; the cursor goes down only in clear.
C17_OnlyTombstones ==
    /\ op.name \in {"remove", "retain"} =>
          /\ next = before.next
          /\ \A i \in Slots :
                \/ pairs[i] = before.pairs[i]
                \/ /\ i < before.next
                   /\ before.pairs[i] # None
                   /\ pairs[i] = None
          /\ op.name = "remove" =>
                Cardinality(changed(before.pairs, pairs)) <= 1
    /\ next < before.next => op.name = "clear"

\* a retain, after a clear, that emptied two slots or more and kept a pair
C17_Witness ==
    /\ op.name = "retain" /\ cleared
    /\ Cardinality(changed(before.pairs, pairs)) >= 2
    /\ lenNow >= 1

\* C18: every slot of [0, cursor) has been written by insert, remove or
\* retain since construction or the last clear, so that no scan reads a
\* slot that was never written or that holds a pair from before the clear.
C18_ScannedSlotsWritten == \A i \in 0 .. next - 1 : i \in written

\* C19: an insert(k, v) that returns changes what is observable for key k
\* only: contains_key(k') and get(k') are as before for every other key k'.
C19_InsertFrame ==
    returned("insert") =>
        \A k \in Keys \ {op.k} :
            /\ hasKey(k) = hadKey(k)
            /\ get(pairs, next, k) = get(before.pairs, before.next, k)

\* C20: the map refines the finite map kept side by side: after calls that
\* did not fail, get(k) is the finite map's value for k, contains_key(k) is
\* membership in it, and len() is its size.
C20_Refinement ==
    ~panicked =>
        /\ \A k \in Keys :
              /\ get(pairs, next, k) = abs[k]
              /\ hasKey(k) <=> abs[k] # None
        /\ lenNow = Cardinality({k \in Keys : abs[k] # None})

====
